---------------------------- MODULE Spec2Model ----------------------------
(***************************************************************************)
(* Duplicate-image moderation bot (Zyfe's bot).  The repository holds six  *)
(* behaviourally distinct deployments of the same bot; the deployment that *)
(* runs is the value of `variant`, fixed when the process starts:          *)
(*                                                                         *)
(*   "index_a"  src/index.js 1-410     findOne then create, unique         *)
(*              (hash, guildId), revokes CODE CERTIFIED                    *)
(*   "index_b"  src/index.js 412-702   channels from the environment,      *)
(*              unique hash, deletes duplicates and unhashable images      *)
(*   "test_a"   src/test.js 1-512      upsert, revokes CODE CERTIFIED      *)
(*   "test_b"   src/test.js 514-955 and src/unnamed/part_000 1-521         *)
(*              upsert, grants the 'temp' role for 24 hours                *)
(*   "part0_b"  src/unnamed/part_000 522-942  upsert, revokes without      *)
(*              checking membership, needs a configuration before !setup   *)
(*   "part2"    src/unnamed/part_002   findOne then save, unique hash,     *)
(*              assignTempRole helper                                      *)
(*                                                                         *)
(* Every await of a handler is a point where other handlers run.  A        *)
(* handler step of the model is the code between two awaits whose          *)
(* interleaving with other handlers can be observed: the store operations  *)
(* of one image are separate steps, the run of platform calls of one       *)
(* penalty is one step.                                                    *)
(***************************************************************************)
EXTENDS Integers, Sequences, FiniteSets, TLC

----------------------------------------------------------------------------
(* Bounds of the model *)

\* message events delivered in one behaviour
MaxMsgs == 2
\* collaborator failures (store, platform, fetch) injected in one behaviour
MaxFaults == 1
\* clock ticks that make up the 24 hours of the temporary role
TicksPerDay == 2

Msgs == 1..MaxMsgs
Guilds == {1, 2}
\* channel ids that exist in a guild; 3 is an id of no channel, 0 a missing argument
Channels == {1, 2}
\* member 1 holds the Administrator permission, member 2 does not
Members == {1, 2}
Admins == {1}
\* fingerprints; 0 is the null of computeImageHash (the image cannot be hashed)
Hashes == {1, 2}
\* the images of one message, in the order attachments then embeds
ImageLists == {<<>>, <<0>>, <<1>>, <<2>>, <<1, 1>>, <<1, 2>>, <<0, 1>>}
Kinds == {"plain", "setup", "startbot", "stopbot"}
\* the two arguments of !setup
SetupArgs == {<<1, 2>>, <<2, 1>>, <<2, 0>>, <<3, 1>>}
MaxTime == TicksPerDay + 1

Variants == {"index_a", "index_b", "test_a", "test_b", "part0_b", "part2"}
UpsertVariants == {"test_a", "test_b", "part0_b"}
FindVariants == {"index_a", "index_b", "part2"}
RevokeVariants == {"index_a", "test_a", "part0_b"}
TempVariants == {"test_b", "part2"}
\* the unique index covers hash alone
GlobalKeyVariants == {"index_b", "part2"}

NoConfig == [ac |-> 0, nc |-> 0]
NoMsg == [g |-> 0, ch |-> 0, a |-> 0, kind |-> "none", args |-> <<0, 0>>, imgs |-> <<>>]
\* no timestamps in the schema
NoTime == -1

VARIABLES
  variant,     \* the deployment that runs
  botRunning,  \* let botRunning
  config,      \* GuildConfig collection: guild -> [ac, nc] or NoConfig
  images,      \* Image collection: set of documents
  nextId,      \* next _id of the Image collection
  now,         \* the clock
  msg,         \* the message of each event
  exists,      \* the messages that exist on the platform
  pc,          \* position of each messageCreate handler
  idx,         \* the image the handler's for-loop is at
  loc,         \* the handler's locals: notification channel read, time of the store call
  outcome,     \* per handler, the classification of each image handled
  calls,       \* per handler, the platform calls issued, in order
  delPc,       \* position of each messageDelete handler
  roleExists,  \* guilds whose role cache holds the penalty role
  holders,     \* <<guild, member>> pairs that hold the penalty role
  timers,      \* pending setTimeout callbacks
  budget,      \* failures the collaborators can still inject
  proc         \* the process: run state, store connection, closes attempted, exit code

vars == <<variant, botRunning, config, images, nextId, now, msg, exists, pc, idx, loc,
          outcome, calls, delPc, roleExists, holders, timers, budget, proc>>

----------------------------------------------------------------------------
(* The process *)

\* no exit code: the process has not exited
NoCode == -1

\* the process at module load: mongoose.connect is called, nothing is closed
Booting == [run |-> "up", db |-> "connecting", closes |-> <<>>, code |-> NoCode]
\* the process once the store connection is established
Ready == [Booting EXCEPT !.db = "open"]

\* the process has not exited
Alive == proc.run # "exited"
\* store operations are sent; until then mongoose buffers them
StoreOpen == proc.db = "open"

----------------------------------------------------------------------------
(* The store *)

\* the filter {hash, guildId} (index_b: {hash}) of the handler's findOne and upsert
Matches(v, h, g) ==
  IF v = "index_b"
    THEN {d \in images : d.hash = h}
    ELSE {d \in images : d.hash = h /\ d.guildId = g}

\* a schema without the unique index: no insert is refused
NoUniqueIndex(v, h, g) == {}

\* documents that make an insert of (h, g) violate the schema's unique index
Conflicts(v, h, g) ==
  IF v \in GlobalKeyVariants
    THEN {d \in images : d.hash = h}
    ELSE {d \in images : d.hash = h /\ d.guildId = g}

\* findOne returns the first match in insertion order
First(S) == CHOOSE d \in S : \A e \in S : d.id <= e.id

\* a document that always carries the url of the message's first image
FirstUrlDoc(v, m, i, h, t) ==
  [id |-> nextId, hash |-> h, guildId |-> msg[m].g, channelId |-> msg[m].ch,
   messageId |-> m, url |-> <<m, 1>>,
   createdAt |-> IF v = "index_b" \/ v = "part2" THEN NoTime ELSE t,
   updatedAt |-> IF v = "index_b" \/ v = "part2" THEN NoTime ELSE t]

\* the document a handler inserts for image i of message m, at store-call time t
NewDoc(v, m, i, h, t) ==
  [id |-> nextId, hash |-> h, guildId |-> msg[m].g, channelId |-> msg[m].ch,
   messageId |-> m, url |-> <<m, i>>,
   createdAt |-> IF v = "index_b" \/ v = "part2" THEN NoTime ELSE t,
   updatedAt |-> IF v = "index_b" \/ v = "part2" THEN NoTime ELSE t]

\* an update that stamps the creation time as well
Restamp(d, t) == [d EXCEPT !.updatedAt = t, !.createdAt = t]

\* mongoose adds $set {updatedAt: now} to the update of findOneAndUpdate
Touch(d, t) == [d EXCEPT !.updatedAt = t]

\* const wasInserted = createdAt && createdAt.getTime() === updatedAt.getTime()
wasInserted(d) == d.createdAt = d.updatedAt

----------------------------------------------------------------------------
(* The platform calls of a penalty.  A program is the sequence of calls   *)
(* one branch of the handler issues; f is the number of following calls    *)
(* that the catch block of a failed call skips (Rest: all of them), and a  *)
(* call with c = "onfail" is issued only when the call before it failed.   *)

Rest == 99
Op(k, f) == [k |-> k, f |-> f, c |-> "always"]
OnFail(k) == [k |-> k, f |-> 0, c |-> "onfail"]

hasRole(g, a) == <<g, a>> \in holders

\* the branch taken for an image classified as a duplicate
DupProgram(v, g, a) ==
  CASE v = "index_a" ->
         IF g \notin roleExists THEN <<>>
         ELSE (IF hasRole(g, a) THEN <<Op("revoke", 0)>> ELSE <<>>)
              \o <<Op("delete", 0), Op("dm", 0), Op("notify", 0)>>
    [] v = "test_a" ->
         (IF g \in roleExists /\ hasRole(g, a) THEN <<Op("revoke", 0)>> ELSE <<>>)
         \o <<Op("delete", 0), Op("dm", 0), Op("notify", 0)>>
    [] v = "part0_b" ->
         (IF g \in roleExists THEN <<Op("revoke", 0)>> ELSE <<>>)
         \o <<Op("delete", 0), Op("dm", 0), Op("notify", 0)>>
    [] v = "test_b" ->
         (IF g \notin roleExists THEN <<Op("mkrole", Rest)>> ELSE <<>>)
         \o <<Op("grant", 0), Op("timer", 0), Op("delete", 0), Op("dm", 0),
              Op("notify", 0)>>
    [] v = "part2" ->
         <<Op("delete", 0), Op("dm", 0), Op("notify", 0), Op("member", Rest)>>
         \o (IF g \notin roleExists THEN <<Op("mkrole", Rest)>> ELSE <<>>)
         \o <<Op("grant", Rest), Op("timer", 0)>>
    [] v = "index_b" ->
         <<Op("delete", Rest), Op("dm", 0), Op("notify", 0)>>

\* the calls of the E11000 branch that come before its findOne: index_b deletes
\* the message first, and a failed deletion skips the rest of the branch
BeforeRecheck(v) == IF v = "index_b" THEN <<Op("delete", Rest)>> ELSE <<>>

\* the branch taken after the insert failed with E11000 and the findOne of the
\* branch returned; found: it returned a document (index_b sends the direct
\* message either way, part2 has no findOne and only warns)
RaceProgram(v, g, a, found) ==
  CASE v = "index_a" ->
         IF ~found THEN <<>>
         ELSE (IF g \in roleExists /\ hasRole(g, a) THEN <<Op("revoke", 0)>> ELSE <<>>)
              \o <<Op("delete", 0)>>
    [] v = "test_a" ->
         IF ~found THEN <<>>
         ELSE (IF g \in roleExists /\ hasRole(g, a) THEN <<Op("revoke", 0)>> ELSE <<>>)
              \o <<Op("delete", 0), Op("dm", 0), Op("notify", 0), Op("dm", 0),
                   OnFail("notify")>>
    [] v = "part0_b" -> IF ~found THEN <<>> ELSE DupProgram(v, g, a)
    [] v = "test_b" -> IF ~found THEN <<>> ELSE DupProgram(v, g, a)
    [] v = "part2" -> <<>>
    [] v = "index_b" -> <<Op("dm", 0)>>

\* the branch taken when computeImageHash returned null
UnhashableProgram(v) ==
  IF v = "index_b"
    THEN <<Op("delete", Rest), Op("dm", Rest), Op("notify", 0)>>
    ELSE <<>>

\* a timer set for less than the 24 hours
ShortDuration == TicksPerDay - 1

\* 24 * 60 * 60 * 1000 ms, in clock ticks
TEMP_ROLE_DURATION == TicksPerDay

\* the shared state a program reads and writes
World == [calls |-> <<>>, exists |-> exists, delPc |-> delPc, holders |-> holders,
          roleExists |-> roleExists, timers |-> timers, ran |-> {}, pf |-> FALSE]

\* one call: x its context [m, i, g, a, nc], bad whether a failure is injected
Call(op, x, S, n, bad) ==
  LET k == op.k
      fail == bad \/ (k = "delete" /\ x.m \notin S.exists)
      to == CASE k = "notify" -> x.nc
              [] k \in {"delete", "reply"} -> x.m
              [] OTHER -> x.a
      T == [S EXCEPT !.ran = @ \cup {n}, !.pf = fail,
                     !.calls = IF k \in {"timer", "find"} THEN @
                               ELSE Append(@, [k |-> k, ok |-> ~fail, to |-> to,
                                               i |-> x.i])]
  IN  IF fail THEN T
      ELSE CASE k = "revoke" -> [T EXCEPT !.holders = @ \ {<<x.g, x.a>>}]
             [] k = "grant" -> [T EXCEPT !.holders = @ \cup {<<x.g, x.a>>}]
             [] k = "mkrole" -> [T EXCEPT !.roleExists = @ \cup {x.g}]
             [] k = "timer" ->
                  [T EXCEPT !.timers = @ \cup {[m |-> x.m, i |-> x.i,
                                                at |-> now + TEMP_ROLE_DURATION]}]
             [] k = "delete" ->
                  [T EXCEPT !.exists = @ \ {x.m}, !.delPc[x.m] = "pending"]
             [] OTHER -> T

RECURSIVE Run(_, _, _, _, _, _)
\* the calls of prog from position n on, skip of them skipped by a catch block;
\* F: the positions at which a failure is injected
Run(prog, F, x, n, skip, S) ==
  IF n > Len(prog) THEN S
  ELSE IF skip > 0 THEN Run(prog, F, x, n + 1, skip - 1, S)
  ELSE IF prog[n].c = "onfail" /\ ~S.pf THEN Run(prog, F, x, n + 1, 0, S)
  ELSE LET T == Call(prog[n], x, S, n, n \in F)
       IN  Run(prog, F, x, n + 1, IF T.pf THEN prog[n].f ELSE 0, T)

\* the sets of positions at which failures can be injected
FaultSets(prog) ==
  {F \in SUBSET (1..Len(prog)) :
     /\ Cardinality(F) <= budget
     /\ \A n \in F : prog[n].k # "timer"}

----------------------------------------------------------------------------
(* The messageCreate handler, up to the image loop *)

\* process.env.ACTIVE_CHANNEL_ID and COMMAND_CHANNEL_ID of index_b
EnvConfig == [ac |-> 1, nc |-> 2]

\* the configuration the handler works with
ReadConfig(v, g) == IF v = "index_b" THEN EnvConfig ELSE config[g]

\* a permission check that lets every member through
AnyoneAdmin(M) == TRUE

isAdmin(M) == M.a \in Admins
isToggle(M) == M.kind \in {"startbot", "stopbot"}

\* the !setup branch: permission, then usage (part2: then the channel ids)
SetupBranch(v, M) ==
  IF ~isAdmin(M) THEN "setupDenied"
  ELSE IF M.args[1] = 0 \/ M.args[2] = 0 THEN "setupUsage"
  ELSE IF v = "part2" /\ (M.args[1] \notin Channels \/ M.args[2] \notin Channels)
    THEN "setupInvalid"
  ELSE "setupApply"

\* a command branch without the permission check
AnyoneToggles(M) == "toggle"

\* a command branch that does not return: the message goes on to the images
FallsThrough(M) == IF M.imgs = <<>> THEN "noImages" ELSE "images"

ToggleBranch(M) == IF isAdmin(M) THEN "toggle" ELSE "toggleDenied"

ImagesBranch(M) == IF M.imgs = <<>> THEN "noImages" ELSE "images"

\* a gate that is always open
NeverStopped == FALSE

\* if (!botRunning) return;
Stopped == ~botRunning

\* a handler that does not compare the channel with the active channel
NoChannelCheck(v, M, cfg) ==
  IF isToggle(M) THEN ToggleBranch(M)
  ELSE IF Stopped THEN "stopped"
  ELSE ImagesBranch(M)

\* a handler whose gate closes for the first community only
PerGuildGate(v, M, cfg) ==
  IF cfg = NoConfig THEN "unconfigured"
  ELSE IF M.ch # cfg.ac THEN "offChannel"
  ELSE IF isToggle(M) THEN ToggleBranch(M)
  ELSE IF Stopped /\ M.g = 1 THEN "stopped"
  ELSE ImagesBranch(M)

\* a handler that consults the gate before it looks at the commands
GateFirst(v, M, cfg) ==
  IF Stopped THEN "stopped"
  ELSE IF cfg = NoConfig THEN "unconfigured"
  ELSE IF M.ch # cfg.ac THEN "offChannel"
  ELSE IF isToggle(M) THEN ToggleBranch(M)
  ELSE ImagesBranch(M)

\* the branch one message takes, by the order of the checks of each deployment
Dispatch(v, M, cfg) ==
  CASE v = "index_b" ->
         IF M.ch # cfg.ac THEN "offChannel"
         ELSE IF isToggle(M) THEN ToggleBranch(M)
         ELSE IF Stopped THEN "stopped"
         ELSE ImagesBranch(M)
    [] v = "part2" ->
         IF M.kind = "setup" THEN SetupBranch(v, M)
         ELSE IF isToggle(M) THEN ToggleBranch(M)
         ELSE IF Stopped THEN "stopped"
         ELSE IF cfg = NoConfig THEN "unconfigured"
         ELSE IF M.ch # cfg.ac THEN "offChannel"
         ELSE ImagesBranch(M)
    [] v = "part0_b" ->
         IF cfg = NoConfig THEN "unconfigured"
         ELSE IF M.kind = "setup" THEN SetupBranch(v, M)
         ELSE IF M.ch # cfg.ac THEN "offChannel"
         ELSE IF isToggle(M) THEN ToggleBranch(M)
         ELSE IF Stopped THEN "stopped"
         ELSE ImagesBranch(M)
    [] OTHER ->
         IF M.kind = "setup" THEN SetupBranch(v, M)
         ELSE IF cfg = NoConfig THEN "unconfigured"
         ELSE IF M.ch # cfg.ac THEN "offChannel"
         ELSE IF isToggle(M) THEN ToggleBranch(M)
         ELSE IF Stopped THEN "stopped"
         ELSE ImagesBranch(M)

Replied == {"setupDenied", "setupUsage", "setupInvalid", "setupApply", "toggleDenied",
            "toggle"}

Context(m, i, nc) == [m |-> m, i |-> i, g |-> msg[m].g, a |-> msg[m].a, nc |-> nc]

\* the shared state after a program ran with n failures injected, and the
\* handler's log extended by its calls
Commit(m, S, n) ==
  /\ calls' = [calls EXCEPT ![m] = @ \o S.calls]
  /\ exists' = S.exists
  /\ delPc' = S.delPc
  /\ holders' = S.holders
  /\ roleExists' = S.roleExists
  /\ timers' = S.timers
  /\ budget' = budget - n

\* prog runs for handler m, with any failures that can still be injected
Execute(m, prog, x) ==
  \E F \in FaultSets(prog) :
    LET S == Run(prog, F, x, 1, 0, World)
    IN  F \subseteq S.ran /\ Commit(m, S, Cardinality(F))

\* stored configurations the process can start with: every guild set up, or
\* guild 2 not yet
Configured == [g \in Guilds |-> [ac |-> 1, nc |-> 2]]
HalfConfigured == [g \in Guilds |-> IF g = 1 THEN [ac |-> 1, nc |-> 2] ELSE NoConfig]

\* the messages members can post
PlainIn(G, C, A, L) ==
  {[g |-> g, ch |-> ch, a |-> a, kind |-> "plain", args |-> <<0, 0>>, imgs |-> l] :
     g \in G, ch \in C, a \in A, l \in L}
CommandIn(G, C, A, K) ==
  UNION {{[g |-> g, ch |-> ch, a |-> a, kind |-> k, args |-> r, imgs |-> l] :
            g \in G, ch \in C, a \in A, l \in {<<>>, <<1>>},
            r \in IF k = "setup" THEN SetupArgs ELSE {<<0, 0>>}} : k \in K}

\* a state with no event in flight: deployment in Vs, stored configuration in
\* Cs, B failures to come, run state in Rs (FALSE: an administrator's !stopbot
\* was handled before)
InitState(Vs, Cs, B, Rs, P) ==
  /\ variant \in Vs
  /\ botRunning \in Rs
  /\ config \in IF variant = "index_b" THEN {[g \in Guilds |-> NoConfig]} ELSE Cs
  /\ images = {}
  /\ nextId = 1
  /\ now = 0
  /\ msg = [m \in Msgs |-> NoMsg]
  /\ exists = {}
  /\ pc = [m \in Msgs |-> "idle"]
  /\ idx = [m \in Msgs |-> 0]
  /\ loc = [m \in Msgs |-> [tag |-> "none", nc |-> 0, t |-> 0]]
  /\ outcome = [m \in Msgs |-> <<>>]
  /\ calls = [m \in Msgs |-> <<>>]
  /\ delPc = [m \in Msgs |-> "none"]
  /\ roleExists = (IF variant \in RevokeVariants THEN {1} ELSE {})
  /\ holders = (IF variant \in RevokeVariants THEN {<<1, 2>>} ELSE {})
  /\ timers = {}
  /\ budget = B
  /\ proc = P

\* the states after start-up: the store connection is established
InitRun(Vs, Cs, B, Rs) == InitState(Vs, Cs, B, Rs, Ready)

\* the state after construction: let botRunning = true
InitWith(Vs, Cs, B) == InitRun(Vs, Cs, B, {TRUE})

\* a member posts a message: the platform delivers messageCreate
Post(m, In) ==
  /\ Alive
  /\ pc[m] = "idle"
  /\ \A k \in Msgs : k < m => pc[k] # "idle"
  /\ \E M \in In : msg' = [msg EXCEPT ![m] = M]
  /\ exists' = exists \cup {m}
  /\ pc' = [pc EXCEPT ![m] = "start"]
  /\ UNCHANGED <<variant, botRunning, config, images, nextId, now, idx, loc, outcome,
                 calls, delPc, roleExists, holders, timers, budget, proc>>

\* an update whose filter matches the documents of every guild
SaveEverywhere(C, M) == [g \in Guilds |-> [ac |-> M.args[1], nc |-> M.args[2]]]

\* GuildConfig.findOneAndUpdate({guildId}, {guildId, activeChannelId,
\* botCommandChannelId}, {upsert: true}); guildId is unique in the schema
SaveConfig(C, M) == [C EXCEPT ![M.g] = [ac |-> M.args[1], nc |-> M.args[2]]]

\* GuildConfig.findOne failed: the outer catch logs it
StartFails(m) ==
  /\ pc[m] = "start"
  /\ variant # "index_b"
  /\ budget > 0
  /\ budget' = budget - 1
  /\ pc' = [pc EXCEPT ![m] = "done"]
  /\ loc' = [loc EXCEPT ![m].tag = "error"]
  /\ UNCHANGED <<variant, botRunning, config, images, nextId, now, msg, exists, idx,
                 outcome, calls, delPc, roleExists, holders, timers>>

\* findOneAndUpdate of the configuration failed: no reply
SetupFails(m) ==
  /\ pc[m] = "start"
  /\ Dispatch(variant, msg[m], ReadConfig(variant, msg[m].g)) = "setupApply"
  /\ budget > 0
  /\ budget' = budget - 1
  /\ pc' = [pc EXCEPT ![m] = "done"]
  /\ loc' = [loc EXCEPT ![m].tag = "error"]
  /\ UNCHANGED <<variant, botRunning, config, images, nextId, now, msg, exists, idx,
                 outcome, calls, delPc, roleExists, holders, timers>>

\* from the configuration read to the first await of the image loop
StartOk(m) ==
  /\ pc[m] = "start"
  /\ LET M == msg[m]
         cfg == ReadConfig(variant, M.g)
         tag == Dispatch(variant, M, cfg)
         prog == IF tag \in Replied THEN <<Op("reply", Rest)>> ELSE <<>>
     IN  /\ Execute(m, prog, Context(m, 0, cfg.nc))
         /\ config' = IF tag = "setupApply" THEN SaveConfig(config, M) ELSE config
         /\ botRunning' = IF tag = "toggle" THEN M.kind = "startbot" ELSE botRunning
         /\ pc' = [pc EXCEPT ![m] = IF tag = "images" THEN "img" ELSE "done"]
         /\ idx' = [idx EXCEPT ![m] = IF tag = "images" THEN 1 ELSE 0]
         /\ loc' = [loc EXCEPT ![m] = [tag |-> tag, nc |-> cfg.nc, t |-> 0]]
  /\ UNCHANGED <<variant, images, nextId, now, msg, outcome>>

----------------------------------------------------------------------------
(* The image loop: for (const imageUrl of imageUrls) *)

Image(m) == msg[m].imgs[idx[m]]
Here(m) == Context(m, idx[m], loc[m].nc)

\* a loop that stays at the image whose store call failed
Retry(m) == pc' = pc /\ idx' = idx

\* the loop moves to the next image, or the handler returns
Advance(m) ==
  /\ pc' = [pc EXCEPT ![m] = IF idx[m] < Len(msg[m].imgs) THEN "img" ELSE "done"]
  /\ idx' = [idx EXCEPT ![m] = IF idx[m] < Len(msg[m].imgs) THEN @ + 1 ELSE @]

\* an exception reaches the catch of the whole handler
Abort(m) ==
  /\ pc' = [pc EXCEPT ![m] = "done"]
  /\ idx' = idx

\* a handler that takes every image for new
ClassifyNew(m, res, rec, via) ==
  outcome' = [outcome EXCEPT ![m] = Append(@, [res |-> "new", rec |-> rec, via |-> via])]

\* the handler's verdict on the image: res the branch it takes, rec the _id of
\* the document it worked with, via the store call that decided
Classify(m, res, rec, via) ==
  outcome' = [outcome EXCEPT ![m] = Append(@, [res |-> res, rec |-> rec, via |-> via])]

\* computeImageHash returns null: the image cannot be hashed, or the fetch failed
Unhashable(m) ==
  /\ pc[m] = "img"
  /\ \/ Image(m) = 0 /\ Execute(m, UnhashableProgram(variant), Here(m))
     \/ /\ Image(m) # 0
        /\ budget > 0
        /\ LET prog == UnhashableProgram(variant)
           IN  \E F \in {G \in SUBSET (1..Len(prog)) : Cardinality(G) < budget} :
                 LET S == Run(prog, F, Here(m), 1, 0, World)
                 IN  /\ F \subseteq S.ran
                     /\ Commit(m, S, Cardinality(F) + 1)
  /\ Classify(m, "unhashable", 0, "hash")
  /\ Advance(m)
  /\ UNCHANGED <<variant, botRunning, config, images, nextId, now, msg, loc>>

\* Image.findOne or Image.findOneAndUpdate rejects with a store error
LookupFails(m) ==
  /\ pc[m] = "img"
  /\ Image(m) # 0
  /\ budget > 0
  /\ budget' = budget - 1
  /\ Classify(m, "error", 0, "lookup")
  /\ IF variant \in UpsertVariants THEN Advance(m) ELSE Abort(m)
  /\ UNCHANGED <<variant, botRunning, config, images, nextId, now, msg, exists, loc,
                 calls, delPc, roleExists, holders, timers>>

\* the hash is computed and the store finds a document of (hash, guildId):
\* findOne returns it; the upsert updates it and returns it as updated
LookupHit(m) ==
  /\ pc[m] = "img"
  /\ Image(m) # 0
  /\ Matches(variant, Image(m), msg[m].g) # {}
  /\ LET d == First(Matches(variant, Image(m), msg[m].g))
         e == IF variant \in UpsertVariants THEN Touch(d, now) ELSE d
         new == variant \in UpsertVariants /\ wasInserted(e)
     IN  /\ images' = (images \ {d}) \cup {e}
         /\ Classify(m, IF new THEN "new" ELSE "dup", d.id, "lookup")
         /\ Execute(m, IF new THEN <<>> ELSE DupProgram(variant, msg[m].g, msg[m].a),
                    Here(m))
  /\ Advance(m)
  /\ UNCHANGED <<variant, botRunning, config, nextId, now, msg, loc>>

\* the hash is computed and the store finds no document of (hash, guildId)
LookupMiss(m) ==
  /\ pc[m] = "img"
  /\ Image(m) # 0
  /\ Matches(variant, Image(m), msg[m].g) = {}
  /\ pc' = [pc EXCEPT ![m] = "ins"]
  /\ loc' = [loc EXCEPT ![m].t = now]
  /\ UNCHANGED <<variant, botRunning, config, images, nextId, now, msg, exists, idx,
                 outcome, calls, delPc, roleExists, holders, timers, budget>>

\* the insert (create, save, or the insert half of the upsert) rejects with an
\* error other than E11000
InsertFails(m) ==
  /\ pc[m] = "ins"
  /\ budget > 0
  /\ budget' = budget - 1
  /\ Classify(m, "error", 0, "insert")
  /\ Advance(m)
  /\ UNCHANGED <<variant, botRunning, config, images, nextId, now, msg, exists, loc,
                 calls, delPc, roleExists, holders, timers>>

\* the insert succeeds
InsertOk(m) ==
  /\ pc[m] = "ins"
  /\ Conflicts(variant, Image(m), msg[m].g) = {}
  /\ LET d == NewDoc(variant, m, idx[m], Image(m), loc[m].t)
     IN  /\ images' = images \cup {d}
         /\ nextId' = nextId + 1
         /\ Classify(m, IF variant \in UpsertVariants => wasInserted(d)
                          THEN "new" ELSE "dup", d.id, "insert")
  /\ Advance(m)
  /\ UNCHANGED <<variant, botRunning, config, now, msg, exists, loc, calls, delPc,
                 roleExists, holders, timers, budget>>

\* the insert violates the unique index: E11000
InsertConflict(m) ==
  /\ pc[m] = "ins"
  /\ Conflicts(variant, Image(m), msg[m].g) # {}
  /\ LET d == First(Conflicts(variant, Image(m), msg[m].g))
     IN  CASE variant = "index_b" ->
                \E F \in FaultSets(BeforeRecheck(variant)) :
                  LET S == Run(BeforeRecheck(variant), F, Here(m), 1, 0, World)
                  IN  /\ F \subseteq S.ran
                      /\ Commit(m, S, Cardinality(F))
                      /\ IF S.pf
                           THEN Classify(m, "dup", d.id, "race") /\ Advance(m)
                           ELSE /\ pc' = [pc EXCEPT ![m] = "recheck"]
                                /\ UNCHANGED <<idx, outcome>>
           [] variant = "part2" ->
                /\ Classify(m, "skip", d.id, "race")
                /\ Advance(m)
                /\ UNCHANGED <<exists, calls, delPc, roleExists, holders, timers, budget>>
           [] OTHER ->
                /\ pc' = [pc EXCEPT ![m] = "recheck"]
                /\ UNCHANGED <<idx, outcome, exists, calls, delPc, roleExists, holders,
                               timers, budget>>
  /\ UNCHANGED <<variant, botRunning, config, images, nextId, now, msg, loc>>

\* the findOne of the E11000 branch rejects: the exception leaves the catch
\* block (index_b: the try inside the branch catches it)
RecheckFails(m) ==
  /\ pc[m] = "recheck"
  /\ budget > 0
  /\ budget' = budget - 1
  /\ Classify(m, "error", 0, "race")
  /\ IF variant = "index_b" THEN Advance(m) ELSE Abort(m)
  /\ UNCHANGED <<variant, botRunning, config, images, nextId, now, msg, exists, loc,
                 calls, delPc, roleExists, holders, timers>>

\* the findOne of the E11000 branch
RecheckOk(m) ==
  /\ pc[m] = "recheck"
  /\ LET S == Matches(variant, Image(m), msg[m].g)
     IN  /\ Classify(m, IF S = {} THEN "skip" ELSE "dup",
                     IF S = {} THEN 0 ELSE First(S).id, "race")
         /\ Execute(m, RaceProgram(variant, msg[m].g, msg[m].a, S # {}), Here(m))
  /\ Advance(m)
  /\ UNCHANGED <<variant, botRunning, config, images, nextId, now, msg, loc>>

----------------------------------------------------------------------------
(* Message deletion, the clock and the timers *)

\* a member or moderator deletes a message: the platform delivers messageDelete
UserDelete(m) ==
  /\ m \in exists
  /\ exists' = exists \ {m}
  /\ delPc' = [delPc EXCEPT ![m] = "pending"]
  /\ UNCHANGED <<variant, botRunning, config, images, nextId, now, msg, pc, idx, loc,
                 outcome, calls, roleExists, holders, timers, budget, proc>>

\* the documents the findOne of the messageDelete handler matches
DeleteFilter(v, m) ==
  IF v = "index_b"
    THEN {d \in images : d.messageId = m}
    ELSE {d \in images : d.messageId = m /\ d.guildId = msg[m].g}

\* deleteOne removes the first document with the message id, if the findOne found one
deleteOne(v, m) ==
  IF DeleteFilter(v, m) = {} THEN images
  ELSE images \ {First({d \in images : d.messageId = m})}

\* the messageDelete handler; index_b returns at once while the bot is stopped
MessageDeleteOk(m) ==
  /\ delPc[m] = "pending"
  /\ delPc' = [delPc EXCEPT ![m] = "done"]
  /\ images' = IF variant = "index_b" /\ ~botRunning THEN images
               ELSE deleteOne(variant, m)
  /\ UNCHANGED <<variant, botRunning, config, nextId, now, msg, exists, pc, idx, loc,
                 outcome, calls, roleExists, holders, timers, budget>>

\* a store operation of the messageDelete handler rejects: the catch logs it
MessageDeleteFails(m) ==
  /\ delPc[m] = "pending"
  /\ ~(variant = "index_b" /\ ~botRunning)
  /\ budget > 0
  /\ budget' = budget - 1
  /\ delPc' = [delPc EXCEPT ![m] = "done"]
  /\ UNCHANGED <<variant, botRunning, config, images, nextId, now, msg, exists, pc, idx,
                 loc, outcome, calls, roleExists, holders, timers>>

\* the clock is read to stamp documents, and the stamps are read only by the
\* wasInserted test of the upsert; setTimeout reads it to decide whether a
\* timer is due
Observed ==
  \/ /\ variant \in UpsertVariants
     /\ \/ \E d \in images : d.createdAt = now \/ d.updatedAt = now
        \/ \E m \in Msgs : pc[m] = "ins" /\ loc[m].t = now
  \/ \E t \in timers : t.at > now

\* time passes (ticks that nothing can observe are not taken)
Tick ==
  /\ now < MaxTime
  /\ Observed
  /\ now' = now + 1
  /\ UNCHANGED <<variant, botRunning, config, images, nextId, msg, exists, pc, idx, loc,
                 outcome, calls, delPc, roleExists, holders, timers, budget, proc>>

\* a setTimeout callback runs: member.roles.remove(tempRole)
TimerFire(t) ==
  /\ Alive
  /\ t \in timers
  /\ now >= t.at
  /\ timers' = timers \ {t}
  /\ \/ holders' = holders \ {<<msg[t.m].g, msg[t.m].a>>} /\ budget' = budget
     \/ budget > 0 /\ budget' = budget - 1 /\ holders' = holders
  /\ UNCHANGED <<variant, botRunning, config, images, nextId, now, msg, exists, pc, idx,
                 loc, outcome, calls, delPc, roleExists, proc>>

\* a restart that keeps the run state of the process that ended
RestartPersisted ==
  /\ pc' = [m \in Msgs |-> IF pc[m] = "idle" THEN "idle" ELSE "done"]
  /\ delPc' = [m \in Msgs |-> IF delPc[m] = "pending" THEN "lost" ELSE delPc[m]]
  /\ timers' = {}
  /\ proc' = Ready
  /\ UNCHANGED <<variant, botRunning, config, images, nextId, now, msg, exists, idx, loc,
                 outcome, calls, roleExists, holders, budget>>

\* the process ends and is started again: the module is loaded anew (let
\* botRunning = true) and connects to the store; handlers in flight, events not
\* yet handled and pending setTimeout callbacks are gone, the store and the
\* platform keep their state
Restart ==
  /\ botRunning' = TRUE
  /\ pc' = [m \in Msgs |-> IF pc[m] = "idle" THEN "idle" ELSE "done"]
  /\ delPc' = [m \in Msgs |-> IF delPc[m] = "pending" THEN "lost" ELSE delPc[m]]
  /\ timers' = {}
  /\ proc' = Ready
  /\ UNCHANGED <<variant, config, images, nextId, now, msg, exists, idx, loc, outcome,
                 calls, roleExists, holders, budget>>

----------------------------------------------------------------------------
(* Start-up and shutdown of the process *)

Signals == {"SIGINT", "SIGTERM"}

\* process.on(...): part2 registers gracefulShutdown for both signals, the
\* second bot of index.js registers nothing, the others handle SIGINT only
Handles(v, sig) ==
  CASE v = "part2" -> TRUE
    [] v = "index_b" -> FALSE
    [] OTHER -> sig = "SIGINT"

\* the exit status of a process ended by an unhandled signal
KilledBy(sig) == IF sig = "SIGINT" THEN 130 ELSE 143

\* the steps that change only the process
ProcessOnly ==
  UNCHANGED <<variant, botRunning, config, images, nextId, now, msg, exists, pc, idx,
              loc, outcome, calls, delPc, roleExists, holders, timers>>

\* a termination signal arrives: the shutdown handler starts and calls
\* mongoose.disconnect(), or the signal ends the process at once
Signal(sig) ==
  /\ proc.run = "up"
  /\ proc' = IF Handles(variant, sig)
               THEN [proc EXCEPT !.run = "closing", !.db = "closing",
                                 !.closes = Append(@, "store")]
               ELSE [proc EXCEPT !.run = "exited", !.code = KilledBy(sig)]
  /\ budget' = budget
  /\ ProcessOnly

\* a rejection that leaves the async shutdown handler: the runtime ends the
\* process with status 1, or only warns and the process keeps running
Unhandled(P) ==
  {[P EXCEPT !.run = "exited", !.code = 1]}
    \cup {[P EXCEPT !.run = "up", !.db = d] : d \in {"open", "closed"}}

\* the shutdown handler after await mongoose.disconnect(): F the closes that
\* fail.  part2 wraps each close in its own try; in the others a rejected
\* disconnect leaves the handler before client.destroy() and process.exit(0)
Close ==
  /\ proc.run = "closing"
  /\ \E F \in SUBSET {"store", "client"} :
       /\ Cardinality(F) <= budget
       /\ budget' = budget - Cardinality(F)
       /\ LET closed == [proc EXCEPT !.db = IF "store" \in F THEN "open" ELSE "closed"]
              both == [closed EXCEPT !.closes = Append(@, "client")]
              exit == [both EXCEPT !.run = "exited", !.code = 0]
          IN  IF variant = "part2" THEN proc' = exit
              ELSE IF "store" \in F THEN proc' \in Unhandled(proc)
              ELSE IF "client" \in F THEN proc' \in Unhandled(both) \cup {exit}
              ELSE proc' = exit
  /\ ProcessOnly

\* mongoose.connect resolves
Connected ==
  /\ Alive
  /\ proc.db = "connecting"
  /\ proc' = [proc EXCEPT !.db = "open"]
  /\ budget' = budget
  /\ ProcessOnly

\* mongoose.connect rejects: connectToDatabase sets a timer to call itself
\* again; the second bot of index.js calls process.exit(1)
ConnectFails ==
  /\ Alive
  /\ proc.db = "connecting"
  /\ proc' = IF variant = "index_b"
               THEN [proc EXCEPT !.run = "exited", !.code = 1]
               ELSE [proc EXCEPT !.db = "retry"]
  /\ budget' = budget
  /\ ProcessOnly

\* setTimeout(connectToDatabase, 5000) fires
Reconnect ==
  /\ Alive
  /\ proc.db = "retry"
  /\ proc' = [proc EXCEPT !.db = "connecting"]
  /\ budget' = budget
  /\ ProcessOnly

\* index_b reads its channels from the environment, the others from the store
Start(m) ==
  /\ Alive
  /\ variant = "index_b" \/ StoreOpen
  /\ pc[m] = "start"
  /\ StartOk(m) \/ StartFails(m) \/ SetupFails(m)
  /\ UNCHANGED proc

Lookup(m) ==
  /\ Alive
  /\ pc[m] = "img"
  /\ Unhashable(m) \/ (StoreOpen /\ (LookupFails(m) \/ LookupHit(m) \/ LookupMiss(m)))
  /\ UNCHANGED proc

Insert(m) ==
  /\ Alive
  /\ StoreOpen
  /\ pc[m] = "ins"
  /\ InsertOk(m) \/ InsertConflict(m) \/ InsertFails(m)
  /\ UNCHANGED proc

Recheck(m) ==
  /\ Alive
  /\ StoreOpen
  /\ pc[m] = "recheck"
  /\ RecheckOk(m) \/ RecheckFails(m)
  /\ UNCHANGED proc

MessageDelete(m) ==
  /\ Alive
  /\ StoreOpen \/ (variant = "index_b" /\ ~botRunning)
  /\ delPc[m] = "pending"
  /\ MessageDeleteOk(m) \/ MessageDeleteFails(m)
  /\ UNCHANGED proc

\* the steps of the process when members post the messages of In
NextWith(In) ==
  \/ \E m \in Msgs : Post(m, In)
  \/ \E m \in Msgs : Start(m)
  \/ \E m \in Msgs : Lookup(m)
  \/ \E m \in Msgs : Insert(m)
  \/ \E m \in Msgs : Recheck(m)
  \/ \E m \in Msgs : UserDelete(m)
  \/ \E m \in Msgs : MessageDelete(m)
  \/ Tick

\* the steps of the setTimeout callbacks (deployments that grant the temporary role)
Timers == \E t \in timers : TimerFire(t)

----------------------------------------------------------------------------
(* Specifications.  Each fixes the deployments that can run, the stored    *)
(* configuration, the messages members post and whether collaborators fail. *)

\* images posted in the active channel of set-up guilds
ImagePosts == PlainIn(Guilds, {1}, Members, {<<1>>, <<1, 1>>, <<1, 2>>})

\* the claim on the ledger: find-then-create and upsert, no collaborator fails
Init == InitWith({"index_a", "test_a"}, {Configured}, 0)
Next == NextWith(ImagePosts)
Spec == Init /\ [][Next]_vars

\* !startbot and !stopbot, by the administrator and by a plain member
Toggles == CommandIn({1}, {1}, Members, {"startbot", "stopbot"})

\* the two find-then-create deployments; part2 sets timers
FindInit == InitWith({"index_a", "part2"}, {Configured}, 0)
FindNext == NextWith(ImagePosts) \/ Timers
FindSpec == FindInit /\ [][FindNext]_vars

\* images posted in the active channel of guild 1
OneGuildPosts == PlainIn({1}, {1}, Members, {<<1>>, <<1, 1>>, <<1, 2>>})

\* the upsert deployments, one revoking and one granting the temporary role;
\* no message carries the same image twice
UpsertInit == InitWith({"test_a", "test_b"}, {Configured}, 0)
UpsertNext == NextWith(PlainIn({1}, {1}, Members, {<<1>>, <<2>>, <<1, 2>>})) \/ Timers
UpsertSpec == UpsertInit /\ [][UpsertNext]_vars

\* the deployments that grant the temporary role
TempInit == InitWith({"test_b", "part2"}, {Configured}, 0)
TempNext == NextWith(OneGuildPosts) \/ Timers
TempSpec == TempInit /\ [][TempNext]_vars

\* images and run-state commands
GateInit == InitWith({"test_a", "part2"}, {Configured}, 0)
GateNext == NextWith(PlainIn({1}, {1}, Members, {<<1>>, <<1, 1>>}) \cup Toggles) \/ Timers
GateSpec == GateInit /\ [][GateNext]_vars

\* messages with one or two images, their deletion, and run-state commands
CleanupInit == InitWith({"test_a", "index_b"}, {Configured}, 0)
CleanupNext ==
  NextWith(PlainIn({1}, {1}, Members, {<<1>>, <<2>>, <<1, 2>>}) \cup Toggles)
CleanupSpec == CleanupInit /\ [][CleanupNext]_vars

\* the ledger deployments when the store, the platform or the fetch can fail
FaultInit == InitWith({"index_a", "test_a"}, {Configured}, MaxFaults)
FaultNext == NextWith(PlainIn({1}, {1}, Members, {<<1>>, <<1, 2>>}))
FaultSpec == FaultInit /\ [][FaultNext]_vars

\* commands and images posted in a guild that is set up and in one that is not
ConfigPosts ==
  CommandIn(Guilds, {1}, Members, {"setup", "startbot", "stopbot"})
    \cup PlainIn(Guilds, {1}, {2}, {<<1>>, <<1, 1>>})

\* !setup checked before the configuration (test.js first bot, part_002)
SetupInit == InitWith({"test_a", "part2"}, {HalfConfigured}, 0)
SetupNext == NextWith(ConfigPosts) \/ Timers
SetupSpec == SetupInit /\ [][SetupNext]_vars

\* !setup checked before and after the configuration (test.js first bot,
\* part_000 second bot)
BootstrapInit == InitWith({"test_a", "part0_b"}, {HalfConfigured}, 0)
BootstrapNext == NextWith(ConfigPosts)
BootstrapSpec == BootstrapInit /\ [][BootstrapNext]_vars

\* messages with an image that cannot be hashed
HashInit == InitWith({"test_a", "index_b"}, {Configured}, 0)
HashNext == NextWith(PlainIn({1}, {1}, Members, {<<0>>, <<0, 1>>, <<1>>}))
HashSpec == HashInit /\ [][HashNext]_vars

----------------------------------------------------------------------------
(* What the handlers did, read off the state *)

\* the run state toggled by administrators, from either value of the flag (it
\* is disabled when an administrator's !stopbot was handled earlier)
RunInit == InitRun({"test_a", "part2"}, {Configured}, 0, {TRUE, FALSE})
RunNext == NextWith(PlainIn({1}, {1}, Members, {<<1>>, <<1, 1>>}) \cup Toggles) \/ Timers
RunSpec == RunInit /\ [][RunNext]_vars

\* the process is restarted at any moment
RestartInit == InitWith({"test_a", "part2"}, {Configured}, 0)
RestartNext ==
  \/ NextWith(PlainIn({1}, {1}, Members, {<<1>>, <<1, 1>>}) \cup Toggles)
  \/ Timers
  \/ Restart
RestartSpec == RestartInit /\ [][RestartNext]_vars

\* termination signals while members post, one close can fail
ShutdownInit == InitWith({"test_a", "part2"}, {Configured}, MaxFaults)
ShutdownNext ==
  \/ NextWith(PlainIn({1}, {1}, Members, {<<1>>}))
  \/ Timers
  \/ \E sig \in Signals : Signal(sig)
  \/ Close
ShutdownSpec == ShutdownInit /\ [][ShutdownNext]_vars

\* the process from module load on: the store may be unreachable for a while
ConnectInit == InitState({"test_a", "index_b"}, {Configured}, 0, {TRUE}, Booting)
ConnectNext ==
  \/ NextWith(PlainIn({1}, {1}, Members, {<<1>>}))
  \/ Connected
  \/ ConnectFails
  \/ Reconnect
ConnectSpec == ConnectInit /\ [][ConnectNext]_vars

\* commands and images posted in the active channel and in another channel
ChannelPosts ==
  CommandIn({1}, Channels, Members, {"startbot", "stopbot"})
    \cup PlainIn({1}, Channels, Members, {<<1>>, <<1, 1>>})
ChannelInit == InitWith({"test_a", "part2"}, {Configured}, 0)
ChannelNext == NextWith(ChannelPosts) \/ Timers
ChannelSpec == ChannelInit /\ [][ChannelNext]_vars

\* commands and images in two configured communities
ProcessInit == InitWith({"test_a", "part2"}, {Configured}, 0)
ProcessNext ==
  \/ NextWith(CommandIn(Guilds, {1}, Members, {"startbot", "stopbot"})
                \cup PlainIn(Guilds, {1}, {2}, {<<1>>}))
  \/ Timers
ProcessSpec == ProcessInit /\ [][ProcessNext]_vars

\* the images handled so far: <<message, position in the message>>
Handled == UNION {{<<m, i>> : i \in 1..Len(outcome[m])} : m \in Msgs}
Verdict(c) == outcome[c[1]][c[2]]
Fingerprint(c) == msg[c[1]].imgs[c[2]]
Community(c) == msg[c[1]].g
\* two claims of the same (fingerprint, community)
SameKey(c, e) == Fingerprint(c) = Fingerprint(e) /\ Community(c) = Community(e)
\* the claims the store answered
Claimed == {c \in Handled : Verdict(c).res \in {"new", "dup", "skip"}}
\* the platform calls the handler issued for one image
CallsFor(c) ==
  {calls[c[1]][j].k : j \in {n \in 1..Len(calls[c[1]]) : calls[c[1]][n].i = c[2]}}
\* no messageDelete handler has run yet
NoCleanup == \A m \in Msgs : delPc[m] # "done"
\* this step is the first step of the messageCreate handler of m
Starts(m) == pc[m] = "start" /\ pc'[m] # "start"
\* the handler's only call is the reply to the message
OnlyReplied(m) ==
  calls'[m] = <<[k |-> "reply", ok |-> TRUE, to |-> m, i |-> 0]>>

----------------------------------------------------------------------------
(* Claims *)

\* C1: among the handlers that claim one (fingerprint, community), as long as
\* no cleanup removed its record, exactly one classifies its claim as newly
\* inserted, and every other takes the duplicate path with the record of
\* that one.
C1_ExactlyOneInserted ==
  NoCleanup =>
    \A c \in Claimed :
      \E w \in Claimed :
        /\ SameKey(w, c)
        /\ Verdict(w).res = "new"
        /\ \A o \in Claimed :
             SameKey(o, w) /\ o[1] # w[1] =>
               Verdict(o).res = "dup" /\ Verdict(o).rec = Verdict(w).rec

\* C2: the ledger never holds two records of one (hash, guildId) pair.
C2_OneRecordPerKey ==
  \A d, e \in images : d.hash = e.hash /\ d.guildId = e.guildId => d = e

\* an insert was refused after a race, a cleanup ran, and a record is stored
C2_RaceAndCleanup ==
  /\ \E c \in Handled : Verdict(c).via = "race"
  /\ \E m \in Msgs : delPc[m] = "done"
  /\ images # {}

\* C6: an image whose claim inserted the record is classified as new, the
\* handler issues no platform call for it (no role change, deletion or
\* notification), and the record carries the fingerprint, the guild, the
\* channel id, the message id and the url of that image.
C6_NewImageRecorded ==
  \A c \in Handled :
    Verdict(c).via = "insert" /\ Verdict(c).res # "error" =>
      /\ Verdict(c).res = "new"
      /\ CallsFor(c) = {}
      /\ \A d \in images :
           d.id = Verdict(c).rec =>
             /\ d.hash = Fingerprint(c)
             /\ d.guildId = Community(c)
             /\ d.channelId = msg[c[1]].ch
             /\ d.messageId = c[1]
             /\ d.url = c

\* the second image of a message was new and its record is stored, while the
\* first image of the message was a duplicate
C6_SecondImageNew ==
  \E c \in Handled :
    /\ c[2] = 2
    /\ Verdict(c).via = "insert"
    /\ Verdict(<<c[1], 1>>).res = "dup"
    /\ \E d \in images : d.id = Verdict(c).rec

\* C3: a claim is never refused because of a record of another community:
\* the first poster of a fingerprint in each community gets a new record
\* whether or not the fingerprint is recorded elsewhere.
C3_CommunitiesIndependent ==
  \A c \in Handled :
    \A d \in images :
      Verdict(c).via = "race" /\ d.id = Verdict(c).rec => d.guildId = Community(c)

\* C4: a handler whose insert was refused by the unique index of its own
\* community treats the image as an ordinary duplicate: it deletes the
\* message, sends the direct message and posts the channel notice.
C4_LoserTreatedAsDuplicate ==
  \A c \in Handled :
    /\ Verdict(c).via = "race"
    /\ \E d \in images : d.id = Verdict(c).rec /\ d.guildId = Community(c)
    => {"delete", "dm", "notify"} \subseteq CallsFor(c)

\* C5: when the store finds a record of the image's fingerprint for the
\* community, the handler deletes the message, sends the direct message,
\* posts the notice and applies the penalty (the member does not hold the
\* certified role afterwards, or is granted the temporary role).
C5_DuplicatePenalised ==
  \A c \in Handled :
    Verdict(c).via = "lookup" /\ Verdict(c).res # "error" =>
      /\ {"delete", "dm", "notify"} \subseteq CallsFor(c)
      /\ variant \in TempVariants => "grant" \in CallsFor(c)
      /\ variant \in RevokeVariants => ~hasRole(Community(c), msg[c[1]].a)

\* C7: a message whose handler finds the run state disabled at the gate
\* causes no claim, no ledger change, no deletion, no role change and no
\* notification: the handler ends there, and only a command is answered.
C7_GateClosed ==
  [][\A m \in Msgs :
       pc[m] = "start" /\ pc'[m] # "start" /\ ~botRunning =>
         /\ pc'[m] = "done"
         /\ outcome'[m] = <<>>
         /\ \A j \in 1..Len(calls'[m]) : calls'[m][j].k = "reply"
         /\ msg[m].kind = "plain" => calls'[m] = <<>>
         /\ images' = images
         /\ holders' = holders
         /\ exists' = exists
         /\ timers' = timers]_vars

\* a message with an image was handled while the run state was disabled
C7_ImageWhileStopped ==
  \E m \in Msgs :
    /\ msg[m].kind = "plain"
    /\ msg[m].imgs # <<>>
    /\ pc[m] = "done"
    /\ loc[m].tag = "stopped"

\* C8: once the messageDelete handler of a message has run, the ledger holds
\* no record of that message (so that the next post of the image is new).
C8_RecordGoneAfterCleanup ==
  [][\A m \in Msgs :
       delPc[m] = "pending" /\ delPc'[m] = "done" =>
         \A d \in images' : d.messageId # m]_vars

\* C9: a member has at most one pending reversal of the temporary role.
C9_SinglePendingReversal ==
  \A g \in Guilds, a \in Members :
    Cardinality({t \in timers : msg[t.m].g = g /\ msg[t.m].a = a}) <= 1

\* C10: a timer is set for 24 hours after the grant, it runs no earlier than
\* that, and right after it ran the member does not hold the temporary role.
C10_ExpiryAfterDuration ==
  [][/\ \A t \in timers' \ timers : t.at = now + TicksPerDay
     /\ \A t \in timers \ timers' :
          /\ now >= t.at
          /\ <<msg[t.m].g, msg[t.m].a>> \notin holders']_vars

\* a member was granted the temporary role and every timer has run
C10_RoleExpired ==
  /\ \E m \in Msgs : \E j \in 1..Len(calls[m]) :
       calls[m][j].k = "grant" /\ calls[m][j].ok
  /\ timers = {}
  /\ holders = {}
  /\ now >= TicksPerDay

\* C11: a !setup from a member without the Administrator permission is
\* answered with the rejection reply and leaves every stored configuration
\* as it was (an absent one stays absent).
C11_SetupDenied ==
  [][\A m \in Msgs :
       Starts(m) /\ msg[m].kind = "setup" /\ msg[m].a \notin Admins =>
         /\ loc'[m].tag = "setupDenied"
         /\ OnlyReplied(m)
         /\ config' = config]_vars

\* a plain member's !setup was handled in the guild that has no configuration
C11_DeniedWhileUnconfigured ==
  \E m \in Msgs :
    /\ msg[m].kind = "setup"
    /\ msg[m].a \notin Admins
    /\ pc[m] = "done"
    /\ config[msg[m].g] = NoConfig
    /\ Len(calls[m]) = 1

\* C12: the run-state flag changes only in the step that handles !startbot or
\* !stopbot of an administrator; the same command of a member without the
\* permission, posted where commands are read, is answered with the
\* permission-denied reply and leaves the flag as it was.
C12_FlagOnlyByAdmin ==
  [][/\ botRunning' # botRunning =>
          \E m \in Msgs : Starts(m) /\ isToggle(msg[m]) /\ msg[m].a \in Admins
     /\ \A m \in Msgs :
          /\ Starts(m)
          /\ isToggle(msg[m])
          /\ msg[m].a \notin Admins
          /\ msg[m].ch = ReadConfig(variant, msg[m].g).ac
          => /\ botRunning' = botRunning
             /\ loc'[m].tag = "toggleDenied"
             /\ OnlyReplied(m)]_vars

\* an administrator stopped the bot and a plain member's !startbot was denied
C12_DeniedWhileStopped ==
  /\ ~botRunning
  /\ \E m \in Msgs :
       /\ msg[m].kind = "startbot"
       /\ msg[m].a \notin Admins
       /\ loc[m].tag = "toggleDenied"
       /\ Len(calls[m]) = 1

\* C13: in a guild without stored configuration, the !setup of an
\* administrator that carries two channel ids is processed: it stores the
\* configuration of the guild and is answered.
C13_AdminSetupBootstraps ==
  [][\A m \in Msgs :
       /\ Starts(m)
       /\ msg[m].kind = "setup"
       /\ msg[m].a \in Admins
       /\ msg[m].args[1] \in Channels
       /\ msg[m].args[2] \in Channels
       /\ config[msg[m].g] = NoConfig
       => /\ config'[msg[m].g] = [ac |-> msg[m].args[1], nc |-> msg[m].args[2]]
          /\ OnlyReplied(m)]_vars

\* C14: in a guild without stored configuration, a message that is not a
\* !setup is ignored: its handler ends at once, changes neither the ledger,
\* the run state, the configuration nor any role, and sends and deletes
\* nothing.  (The !setup of a plain member is answered: C11.)
C14_UnconfiguredIgnored ==
  [][\A m \in Msgs :
       Starts(m) /\ config[msg[m].g] = NoConfig /\ msg[m].kind # "setup" =>
         /\ pc'[m] = "done"
         /\ calls'[m] = <<>>
         /\ botRunning' = botRunning
         /\ config' = config
         /\ images' = images
         /\ holders' = holders
         /\ exists' = exists]_vars

\* C15: an image for which computeImageHash returns null is skipped without
\* penalty: the handler issues no platform call for it (no deletion, role
\* change or notification) and the ledger holds no record of it.
C15_UnhashableSkipped ==
  \A c \in Handled :
    Verdict(c).res = "unhashable" =>
      /\ CallsFor(c) = {}
      /\ \A d \in images : d.url # c

\* C16: when the insert was refused by the unique index and the findOne that
\* follows finds no record, the image is skipped without penalty: the
\* handler issues no platform call for it.
C16_NotFoundSkipped ==
  \A c \in Handled :
    Verdict(c).via = "race" /\ Verdict(c).res = "skip" /\ Verdict(c).rec = 0 =>
      CallsFor(c) = {}

\* C17: an error raised while one image is processed does not keep the
\* handler from the remaining images: a handler that entered the image loop
\* and has returned has handled every image of its message.
C17_ErrorsIsolated ==
  \A m \in Msgs :
    pc[m] = "done" /\ loc[m].tag = "images" => Len(outcome[m]) = Len(msg[m].imgs)

\* C18: in the duplicate path no failed side effect keeps the others from
\* being attempted: for every image found to be a duplicate the deletion of
\* the message, the private notice and the channel notice are all attempted.
C18_SideEffectsIndependent ==
  \A c \in Handled :
    Verdict(c).res = "dup" /\ Verdict(c).via = "lookup"
      => {"delete", "dm", "notify"} \subseteq CallsFor(c)

\* C19: while the run state is disabled a posted image is ignored (nothing is
\* recorded, nobody is penalised); the flag stays disabled until the handler
\* of an administrator's !startbot runs, which enables it also when the bot is
\* stopped; and a handler that starts while the flag is enabled takes the
\* images of its message into the image loop.
C19_StopThenStart ==
  [][/\ ~botRunning /\ botRunning' =>
          \E m \in Msgs : Starts(m) /\ msg[m].kind = "startbot" /\ msg[m].a \in Admins
     /\ \A m \in Msgs :
          Starts(m) =>
            /\ msg[m].kind = "plain" /\ ~botRunning =>
                 /\ pc'[m] = "done"
                 /\ outcome'[m] = <<>>
                 /\ calls'[m] = <<>>
                 /\ images' = images
                 /\ holders' = holders
                 /\ exists' = exists
                 /\ ~botRunning'
            /\ msg[m].kind = "startbot" /\ msg[m].a \in Admins => botRunning'
            /\ msg[m].kind = "stopbot" /\ msg[m].a \in Admins => ~botRunning'
            /\ msg[m].kind = "plain" /\ msg[m].imgs # <<>> /\ botRunning =>
                 pc'[m] = "img" /\ idx'[m] = 1]_vars

\* an image was ignored while the bot was stopped, and the handler of an
\* administrator's !startbot has enabled the bot again
C19_ReenabledAfterIgnoring ==
  /\ botRunning
  /\ \E m \in Msgs :
       /\ msg[m].kind = "plain"
       /\ msg[m].imgs # <<>>
       /\ pc[m] = "done"
       /\ loc[m].tag = "stopped"
  /\ \E m \in Msgs :
       /\ msg[m].kind = "startbot"
       /\ msg[m].a \in Admins
       /\ pc[m] = "done"
       /\ loc[m].tag = "toggle"

\* C20: a restart of the process leaves the run state enabled, whatever it
\* was before, and changes neither the stored configurations nor the records
\* of the ledger.
C20_RestartResetsRunState ==
  [][Restart => botRunning' /\ config' = config /\ images' = images]_vars

\* the process was restarted while stopped: an administrator's !stopbot was
\* handled, no !startbot was, the flag is enabled and the ledger holds a record
C20_RestartedWhileStopped ==
  /\ botRunning
  /\ images # {}
  /\ \E m \in Msgs :
       /\ msg[m].kind = "stopbot"
       /\ pc[m] = "done"
       /\ loc[m].tag = "toggle"
  /\ \A m \in Msgs : msg[m].kind # "startbot"

\* C21: the process exits only after the shutdown handler has attempted to
\* close the store connection and then the platform client, and it exits
\* with code 0, also when one of the closes fails.
C21_GracefulShutdown ==
  proc.run = "exited" => proc.closes = <<"store", "client">> /\ proc.code = 0

\* C22: a failed store connection never ends the process: as long as the
\* connection is not established the process is alive, connecting or waiting
\* for the retry timer.
C22_ConnectFailureSurvived ==
  proc.db # "open" => Alive /\ proc.db \in {"connecting", "retry"}

\* C23: a message recognised as !setup, !startbot or !stopbot never reaches
\* image processing: its handler never enters the image loop, gives no
\* verdict, issues no call but the reply, and no record carries its id.
C23_CommandsShortCircuit ==
  \A m \in Msgs :
    msg[m].kind \in {"setup", "startbot", "stopbot"} =>
      /\ pc[m] \in {"start", "done"}
      /\ outcome[m] = <<>>
      /\ \A j \in 1..Len(calls[m]) : calls[m][j].k = "reply"
      /\ \A d \in images : d.messageId # m

\* two commands that carry an image were handled, one applied and one rejected
C23_CommandsWithImages ==
  \E m, k \in Msgs :
    /\ msg[m].imgs # <<>> /\ msg[k].imgs # <<>>
    /\ pc[m] = "done" /\ pc[k] = "done"
    /\ loc[m].tag \in {"setupApply", "toggle"}
    /\ loc[k].tag \in {"setupDenied", "setupUsage", "setupInvalid", "toggleDenied"}

\* C24: the handler of an administrator's !startbot or !stopbot sets the run
\* state, whichever channel of the configured community the command is sent in.
C24_ToggleInAnyChannel ==
  [][\A m \in Msgs :
       /\ Starts(m)
       /\ isToggle(msg[m])
       /\ msg[m].a \in Admins
       /\ config[msg[m].g] # NoConfig
       => botRunning' = (msg[m].kind = "startbot")]_vars

\* C25: a message posted in a channel other than the active channel of its
\* community causes no fingerprint computation, no claim on the ledger and no
\* penalty action: its handler never enters the image loop, gives no verdict,
\* issues no call but a reply to a command, and no record carries its id.
C25_OffChannelIgnored ==
  \A m \in Msgs :
    pc[m] # "idle" /\ msg[m].ch # ReadConfig(variant, msg[m].g).ac =>
      /\ pc[m] \in {"start", "done"}
      /\ outcome[m] = <<>>
      /\ \A j \in 1..Len(calls[m]) : calls[m][j].k = "reply"
      /\ \A d \in images : d.messageId # m

\* an image posted outside the active channel was handled while the bot runs
\* and the ledger holds no record
C25_ImageOffChannel ==
  \E m \in Msgs :
    /\ msg[m].kind = "plain"
    /\ msg[m].imgs # <<>>
    /\ msg[m].ch # ReadConfig(variant, msg[m].g).ac
    /\ pc[m] = "done"
    /\ loc[m].tag = "offChannel"
    /\ botRunning

\* C26: when a message carries the same image twice and the first copy
\* created the record, the second copy takes the duplicate path: the message
\* is deleted and the author penalised (as long as no record was cleaned up).
C26_SecondCopyIsDuplicate ==
  \A m \in Msgs :
    /\ NoCleanup
    /\ Len(outcome[m]) = 2
    /\ msg[m].imgs[1] = msg[m].imgs[2]
    /\ outcome[m][1].res = "new"
    => /\ outcome[m][2].res = "dup"
       /\ "delete" \in CallsFor(<<m, 2>>)
       /\ variant \in TempVariants => "grant" \in CallsFor(<<m, 2>>)
       /\ variant \in RevokeVariants => ~hasRole(msg[m].g, msg[m].a)

\* C27: no step changes the channel id, message id, URL or creation time of
\* a record that stays in the ledger: a claim that finds the record leaves
\* the fields of the first-seen occurrence as they are.
C27_ProvenanceImmutable ==
  [][\A d \in images : \A e \in images' :
       e.id = d.id =>
         /\ e.channelId = d.channelId
         /\ e.messageId = d.messageId
         /\ e.url = d.url
         /\ e.createdAt = d.createdAt]_vars

\* a claim of another message found the record at a later time: the record
\* still names the first message
C27_RecordFoundLater ==
  \E d \in images : \E c \in Handled :
    /\ Verdict(c).res = "dup"
    /\ Verdict(c).rec = d.id
    /\ c[1] # d.messageId
    /\ d.url[1] = d.messageId
    /\ d.updatedAt > d.createdAt

\* C28: the calls issued for a duplicate come in this order: the role change
\* (revoke or grant), then the deletion of the message, then the direct
\* message to the member, then the notice to the notification channel.
C28_PenaltyOrder ==
  \A c \in Handled :
    Verdict(c).res = "dup" /\ Verdict(c).via = "lookup" =>
      LET log == calls[c[1]]
          at(K) == {n \in 1..Len(log) : log[n].i = c[2] /\ log[n].k \in K}
          before(K, L) == \A p \in at(K) : \A q \in at(L) : p < q
      IN  /\ before({"revoke", "grant"}, {"delete"})
          /\ before({"delete"}, {"dm"})
          /\ before({"dm"}, {"notify"})

\* C29: a role-removal call is issued by a handler only for a member who
\* holds the certified role when the call is issued.
C29_RevokeOnlyHolders ==
  [][\A m \in Msgs :
       \A n \in (Len(calls[m]) + 1)..Len(calls'[m]) :
         calls'[m][n].k = "revoke" => hasRole(msg[m].g, msg[m].a)]_vars

\* C30: a repeat violation refreshes the penalty: while a reversal set by a
\* violation of the member is pending and not yet due, the member holds the
\* temporary role (the reversal of an earlier violation does not remove it).
C30_RepeatRefreshes ==
  \A t \in timers :
    now < t.at => hasRole(msg[t.m].g, msg[t.m].a)

\* C31: the reversal of a grant survives a restart: as long as a member
\* holds the temporary role, a reversal of it is pending.
C31_ReversalSurvivesRestart ==
  variant \in TempVariants =>
    \A h \in holders : \E t \in timers : msg[t.m].g = h[1] /\ msg[t.m].a = h[2]

\* C32: in the upsert variant a claim is classified as new exactly when its
\* call created the record: never when the call found the record, also when
\* it found it at the clock instant of the creation.
C32_NewIffCreated ==
  variant \in UpsertVariants =>
    \A c \in Handled :
      /\ Verdict(c).res = "new" => Verdict(c).via = "insert"
      /\ Verdict(c).via = "insert" /\ Verdict(c).res # "error" => Verdict(c).res = "new"

\* C33: the handler of an administrator's !setup with two channel ids leaves
\* the community with the configuration given (replacing an earlier one) and
\* every other community's configuration as it was.
C33_SetupReplacesOwnConfig ==
  [][\A m \in Msgs :
       /\ Starts(m)
       /\ msg[m].kind = "setup"
       /\ msg[m].a \in Admins
       /\ msg[m].args[1] \in Channels
       /\ msg[m].args[2] \in Channels
       => /\ config'[msg[m].g] = [ac |-> msg[m].args[1], nc |-> msg[m].args[2]]
          /\ \A g \in Guilds \ {msg[m].g} : config'[g] = config[g]]_vars

\* an administrator's !setup replaced the configuration of guild 1 while
\* guild 2 has none
C33_ConfigReplaced ==
  /\ config[1] = [ac |-> 2, nc |-> 1]
  /\ config[2] = NoConfig
  /\ \E m \in Msgs :
       /\ msg[m].kind = "setup"
       /\ msg[m].g = 1
       /\ pc[m] = "done"
       /\ loc[m].tag = "setupApply"

\* C34: when the messageDelete handler of a message that produced several
\* records completes, no record with that message id remains.
C34_AllRecordsOfMessageGone ==
  [][\A m \in Msgs :
       /\ delPc[m] = "pending"
       /\ delPc'[m] = "done"
       /\ Cardinality({d \in images : d.messageId = m}) >= 2
       => Cardinality({d \in images' : d.messageId = m}) = 0]_vars

\* C35 (as stated): a store operation that fails while an image is handled
\* ends the session: the handler returns.
C35_SessionAbandoned ==
  [][\A m \in Msgs :
       /\ Len(outcome'[m]) = Len(outcome[m]) + 1
       /\ outcome'[m][Len(outcome'[m])].res = "error"
       => pc'[m] = "done"]_vars

\* C35 (amended): a store operation that fails in a messageCreate or
\* messageDelete handler is caught inside the handler: the process goes on,
\* the run state, the configuration and the ledger are unchanged, no call is
\* issued for the image, and the operation is not retried.  The handler
\* returns when the configuration read, the find of the find-then-create
\* variant or the lookup after a uniqueness violation failed (the second bot
\* of index.js goes on there); after a failed upsert or insert it goes on with
\* the next image of the message.
C35_StoreErrorContained ==
  [][/\ \A m \in Msgs :
          /\ Len(outcome'[m]) = Len(outcome[m]) + 1
          /\ outcome'[m][Len(outcome'[m])].res = "error"
          => /\ proc' = proc /\ Alive
             /\ botRunning' = botRunning /\ config' = config /\ images' = images
             /\ calls'[m] = calls[m]
             /\ LET via == outcome'[m][Len(outcome'[m])].via
                    next == IF idx[m] < Len(msg[m].imgs) THEN "img" ELSE "done"
                    goesOn == \/ via = "insert"
                              \/ via = "lookup" /\ variant \in UpsertVariants
                              \/ via = "race" /\ variant = "index_b"
                IN  /\ pc'[m] = IF goesOn THEN next ELSE "done"
                    /\ pc'[m] = "img" => idx'[m] = idx[m] + 1
     /\ \A m \in Msgs :
          loc[m].tag # "error" /\ loc'[m].tag = "error" =>
            /\ pc'[m] = "done"
            /\ proc' = proc /\ Alive
            /\ botRunning' = botRunning /\ config' = config /\ images' = images
            /\ calls'[m] = calls[m]
     /\ \A m \in Msgs :
          delPc[m] = "pending" /\ delPc'[m] = "done" /\ budget' < budget =>
            /\ proc' = proc /\ Alive
            /\ botRunning' = botRunning /\ config' = config /\ images' = images]_vars

\* the store call of the first image of a message failed and the second
\* image of the message was recorded as new
C35_ContinuedAfterError ==
  \E m \in Msgs :
    /\ Len(outcome[m]) = 2
    /\ outcome[m][1].res = "error"
    /\ outcome[m][2].res = "new"
    /\ Alive

\* C36: the run state is one flag of the process: an administrator's
\* !stopbot or !startbot sets it whichever community it is sent in, and a
\* message with images enters the image loop exactly when the flag is
\* enabled, whichever community it is posted in.
C36_OneFlagForAllCommunities ==
  [][\A m \in Msgs :
       Starts(m) =>
         /\ isToggle(msg[m]) /\ msg[m].a \in Admins =>
              botRunning' = (msg[m].kind = "startbot")
         /\ msg[m].kind = "plain" /\ msg[m].imgs # <<>> =>
              (pc'[m] = "img" <=> botRunning)]_vars

\* an administrator's !stopbot was handled in one community and an image
\* posted in the other community was ignored
C36_StoppedElsewhere ==
  \E m, k \in Msgs :
    /\ msg[m].kind = "stopbot"
    /\ pc[m] = "done"
    /\ loc[m].tag = "toggle"
    /\ msg[k].kind = "plain"
    /\ msg[k].imgs # <<>>
    /\ msg[k].g # msg[m].g
    /\ pc[k] = "done"
    /\ loc[k].tag = "stopped"

\* C37 (as stated): the bot never deletes a message that is the recorded
\* source of a record: when a handler's delete call removes its message, no
\* record of the ledger carries the id of that message.
C37_SourceNeverDeleted ==
  [][\A m \in Msgs :
       \A n \in (Len(calls[m]) + 1)..Len(calls'[m]) :
         calls'[m][n].k = "delete" /\ calls'[m][n].ok =>
           \A d \in images' : d.messageId # m]_vars

\* C37 (amended): the bot deletes a message only for an image of it that it
\* found to be a duplicate; a record that names the message as its source at
\* that moment was created by an earlier image of the same message.
C37_DeletesOnlyForDuplicates ==
  [][\A m \in Msgs :
       \A n \in (Len(calls[m]) + 1)..Len(calls'[m]) :
         calls'[m][n].k = "delete" =>
           LET i == calls'[m][n].i
           IN  /\ i \in 1..Len(outcome'[m])
               /\ outcome'[m][i].res = "dup"
               /\ \A d \in images' : d.messageId = m => d.url[1] = m /\ d.url[2] < i]_vars

\* the bot has deleted a message that a record names as its source
C37_SourceDeleted ==
  \E m \in Msgs :
    /\ m \notin exists
    /\ \E n \in 1..Len(calls[m]) : calls[m][n].k = "delete" /\ calls[m][n].ok
    /\ \E d \in images : d.messageId = m

\* C38: once all handlers have finished (no message handler is between two
\* steps and no messageDelete handler is waiting), every record of the ledger
\* names a message that still exists.
C38_NoRecordOfDeletedMessage ==
  (\A m \in Msgs : pc[m] \in {"idle", "done"} /\ delPc[m] # "pending") =>
    \A d \in images : d.messageId \in exists

\* C39: for one message the delete-message call is issued at most once.
C39_DeleteIssuedOnce ==
  \A m \in Msgs :
    Cardinality({n \in 1..Len(calls[m]) : calls[m][n].k = "delete"}) <= 1

=============================================================================
